---------------------------- MODULE Spec2Model ----------------------------
(***************************************************************************)
(* A model of the Mureka API client (src/src/index.ts): createClient, the  *)
(* request() pipeline every endpoint goes through, and the 16 endpoint     *)
(* functions.                                                              *)
(*                                                                         *)
(* Strings that the code transforms or validates (JSON string values) are  *)
(* sequences of one-character strings; strings the code only concatenates  *)
(* or passes on (keys, paths, header values, credentials) are TLA+ strings.*)
(***************************************************************************)
EXTENDS Integers, Sequences, FiniteSets, TLC

VARIABLES config, client, calls

vars == <<config, client, calls>>

(***************************************************************************)
(* Bounds of the model.                                                    *)
(***************************************************************************)
\* longest error-envelope message the provider sends
MaxMsgLen == 2

(***************************************************************************)
(* JavaScript strings: String.prototype.toLowerCase and trim.              *)
(***************************************************************************)
UPPER == <<"A","B","C","D","E","F","G","H","I","J","K","L","M",
           "N","O","P","Q","R","S","T","U","V","W","X","Y","Z">>
LOWER == <<"a","b","c","d","e","f","g","h","i","j","k","l","m",
           "n","o","p","q","r","s","t","u","v","w","x","y","z">>

WhiteSpace == {" ", "\t", "\n", "\r"}

ToLowerChar(c) ==
  IF \E i \in DOMAIN UPPER : UPPER[i] = c
    THEN LOWER[CHOOSE i \in DOMAIN UPPER : UPPER[i] = c]
    ELSE c

\* a toLowerCase that returns its receiver unchanged
toLowerCase_Unchanged(s) == s

toLowerCase(s) == [i \in DOMAIN s |-> ToLowerChar(s[i])]

RECURSIVE trimStart(_)
trimStart(s) ==
  IF s # <<>> /\ Head(s) \in WhiteSpace THEN trimStart(Tail(s)) ELSE s

RECURSIVE trimEnd(_)
trimEnd(s) ==
  IF s # <<>> /\ s[Len(s)] \in WhiteSpace
    THEN trimEnd(SubSeq(s, 1, Len(s) - 1))
    ELSE s

\* a trim that strips nothing
trim_Nothing(s) == s

trim(s) == trimEnd(trimStart(s))

(***************************************************************************)
(* JSON values, as JSON.parse and response.json() produce them: a tag t    *)
(* and a payload v.  An object's payload is a function from its keys to    *)
(* values; a number's payload is <<integer part, tenths>>.                 *)
(***************************************************************************)
JNull == [t |-> "null", v |-> <<>>]
JStr(s) == [t |-> "str", v |-> s]
JNum(n) == [t |-> "num", v |-> <<n, 0>>]
JFrac(n, d) == [t |-> "num", v |-> <<n, d>>]
JArr(xs) == [t |-> "arr", v |-> xs]
JObj(f) == [t |-> "obj", v |-> f]
NoFields == [k \in {} |-> JNull]

\* the text of a response body: the serialisation of a JSON value, or
\* text that is not JSON at all
TextOf(j) == [json |-> TRUE, val |-> j]
NotJsonText == [json |-> FALSE, val |-> JNull]

\* errors.trySync(() => JSON.parse(text))
JSONparse(text) ==
  IF text.json THEN [error |-> FALSE, data |-> text.val]
               ELSE [error |-> TRUE, data |-> JNull]

(***************************************************************************)
(* zod schemas and ZodType.safeParse.  z.object strips the keys its shape  *)
(* does not declare and rejects a missing or mistyped declared key;        *)
(* .optional() accepts an absent key only.                                 *)
(***************************************************************************)
ZString == [k |-> "string"]
ZUrl == [k |-> "url"]
ZInt == [k |-> "int"]
ZEnum(vals) == [k |-> "enum", vals |-> vals]
ZArray(s) == [k |-> "array", of |-> s]
ZOptional(s) == [k |-> "optional", of |-> s]
ZObject(shape) == [k |-> "object", shape |-> shape]

Letters == {UPPER[i] : i \in DOMAIN UPPER} \cup {LOWER[i] : i \in DOMAIN LOWER}

\* z.string().url(): new URL(s) must not throw, which needs a scheme
IsUrl(s) ==
  \E i \in 2..Len(s) :
    /\ s[i] = ":"
    /\ \A j \in 1..(i - 1) : s[j] \in Letters

\* a validation that leaves the optional keys of an object out of its output
RECURSIVE safeParse_DropsOptional(_, _)
safeParse_DropsOptional(schema, x) ==
  CASE schema.k = "string" ->
         [success |-> x.t = "str", data |-> x]
    [] schema.k = "url" ->
         [success |-> x.t = "str" /\ IsUrl(x.v), data |-> x]
    [] schema.k = "int" ->
         [success |-> x.t = "num" /\ x.v[2] = 0, data |-> x]
    [] schema.k = "enum" ->
         [success |-> x.t = "str" /\ x.v \in schema.vals, data |-> x]
    [] schema.k = "optional" ->
         safeParse_DropsOptional(schema.of, x)
    [] schema.k = "array" ->
         IF x.t # "arr" THEN [success |-> FALSE, data |-> x]
         ELSE LET r == [i \in DOMAIN x.v |->
                          safeParse_DropsOptional(schema.of, x.v[i])]
              IN [success |-> \A i \in DOMAIN r : r[i].success,
                  data |-> JArr([i \in DOMAIN r |-> r[i].data])]
    [] schema.k = "object" ->
         IF x.t # "obj" THEN [success |-> FALSE, data |-> x]
         ELSE LET declared == DOMAIN schema.shape
                  present == declared \cap DOMAIN x.v
                  kept == {key \in present : schema.shape[key].k # "optional"}
                  r == [key \in present |->
                          safeParse_DropsOptional(schema.shape[key], x.v[key])]
              IN [success |->
                    /\ \A key \in declared \ present :
                         schema.shape[key].k = "optional"
                    /\ \A key \in present : r[key].success,
                  data |-> JObj([key \in kept |-> r[key].data])]

RECURSIVE safeParse(_, _)
safeParse(schema, x) ==
  CASE schema.k = "string" ->
         [success |-> x.t = "str", data |-> x]
    [] schema.k = "url" ->
         [success |-> x.t = "str" /\ IsUrl(x.v), data |-> x]
    [] schema.k = "int" ->
         [success |-> x.t = "num" /\ x.v[2] = 0, data |-> x]
    [] schema.k = "enum" ->
         [success |-> x.t = "str" /\ x.v \in schema.vals, data |-> x]
    [] schema.k = "optional" ->
         safeParse(schema.of, x)
    [] schema.k = "array" ->
         IF x.t # "arr" THEN [success |-> FALSE, data |-> x]
         ELSE LET r == [i \in DOMAIN x.v |-> safeParse(schema.of, x.v[i])]
              IN [success |-> \A i \in DOMAIN r : r[i].success,
                  data |-> JArr([i \in DOMAIN r |-> r[i].data])]
    [] schema.k = "object" ->
         IF x.t # "obj" THEN [success |-> FALSE, data |-> x]
         ELSE LET declared == DOMAIN schema.shape
                  present == declared \cap DOMAIN x.v
                  r == [key \in present |-> safeParse(schema.shape[key], x.v[key])]
              IN [success |->
                    /\ \A key \in declared \ present :
                         schema.shape[key].k = "optional"
                    /\ \A key \in present : r[key].success,
                  data |-> JObj([key \in present |-> r[key].data])]


(***************************************************************************)
(* Enumerated constants and the response schemas of the 16 endpoints.      *)
(***************************************************************************)
TASK_STATUSES ==
  {<<"p","r","e","p","a","r","i","n","g">>,
   <<"q","u","e","u","e","d">>,
   <<"r","u","n","n","i","n","g">>,
   <<"s","u","c","c","e","e","d","e","d">>,
   <<"f","a","i","l","e","d">>,
   <<"t","i","m","e","o","u","t","e","d">>,
   <<"c","a","n","c","e","l","l","e","d">>}

SECTION_TYPES ==
  {<<"i","n","t","r","o">>,
   <<"v","e","r","s","e">>,
   <<"p","r","e","-","c","h","o","r","u","s">>,
   <<"c","h","o","r","u","s">>,
   <<"b","r","i","d","g","e">>,
   <<"b","r","e","a","k","d","o","w","n">>,
   <<"o","u","t","r","o">>}

UPLOAD_STATUSES ==
  {<<"p","e","n","d","i","n","g">>,
   <<"c","o","m","p","l","e","t","e","d">>,
   <<"c","a","n","c","e","l","l","e","d">>}

UploadFileResponseSchema ==
  ZObject([id |-> ZString, bytes |-> ZInt, created_at |-> ZInt,
           filename |-> ZString, purpose |-> ZString])

GenerateLyricsResponseSchema ==
  ZObject([title |-> ZString, lyrics |-> ZString])

ExtendLyricsResponseSchema ==
  ZObject([lyrics |-> ZString])

SongLyricsLineSchema ==
  ZObject("start" :> ZInt @@ "end" :> ZInt @@ "text" :> ZString)

SongLyricsSectionSchema ==
  ZObject("section_type" :> ZEnum(SECTION_TYPES) @@ "start" :> ZInt @@
          "end" :> ZInt @@ "lines" :> ZArray(SongLyricsLineSchema))

SongChoiceSchema ==
  ZObject([index |-> ZInt, url |-> ZString, flac_url |-> ZString,
           duration |-> ZInt,
           lyrics_sections |-> ZArray(SongLyricsSectionSchema)])

GenerateSongResponseSchema ==
  ZObject([id |-> ZString, created_at |-> ZInt, finished_at |-> ZInt,
           model |-> ZString, status |-> ZEnum(TASK_STATUSES),
           failed_reason |-> ZOptional(ZString),
           choices |-> ZArray(SongChoiceSchema)])

QuerySongTaskResponseSchema ==
  ZObject([id |-> ZString, created_at |-> ZInt, finished_at |-> ZInt,
           model |-> ZString, status |-> ZEnum(TASK_STATUSES),
           failed_reason |-> ZOptional(ZString),
           choices |-> ZArray(SongChoiceSchema)])

StemSongResponseSchema ==
  ZObject([zip_url |-> ZUrl, expires_at |-> ZInt])

InstrumentalChoiceSchema ==
  ZObject([index |-> ZInt, url |-> ZString, flac_url |-> ZString,
           duration |-> ZInt])

GenerateInstrumentalResponseSchema ==
  ZObject([id |-> ZString, created_at |-> ZInt, finished_at |-> ZInt,
           model |-> ZString, status |-> ZEnum(TASK_STATUSES),
           failed_reason |-> ZOptional(ZString),
           choices |-> ZArray(InstrumentalChoiceSchema)])

QueryInstrumentalTaskResponseSchema ==
  ZObject([id |-> ZString, created_at |-> ZInt, finished_at |-> ZInt,
           model |-> ZString, status |-> ZEnum(TASK_STATUSES),
           failed_reason |-> ZOptional(ZString),
           choices |-> ZArray(InstrumentalChoiceSchema)])

CreateUploadResponseSchema ==
  ZObject([id |-> ZString, upload_name |-> ZString, purpose |-> ZString,
           bytes |-> ZInt, created_at |-> ZInt, expires_at |-> ZInt,
           status |-> ZEnum(UPLOAD_STATUSES), parts |-> ZArray(ZString)])

AddUploadPartResponseSchema ==
  ZObject([id |-> ZString, upload_id |-> ZString, created_at |-> ZInt])

CompleteUploadResponseSchema ==
  ZObject([id |-> ZString, upload_name |-> ZString, purpose |-> ZString,
           bytes |-> ZInt, created_at |-> ZInt, expires_at |-> ZInt,
           status |-> ZEnum(UPLOAD_STATUSES), parts |-> ZArray(ZString)])

CreateFineTuningTaskResponseSchema ==
  ZObject([id |-> ZString, upload_id |-> ZString, model |-> ZString,
           created_at |-> ZInt, finished_at |-> ZInt,
           status |-> ZEnum(TASK_STATUSES),
           failed_reason |-> ZOptional(ZString),
           fine_tuned_model |-> ZString])

QueryFineTuningTaskResponseSchema ==
  ZObject([id |-> ZString, upload_id |-> ZString, model |-> ZString,
           created_at |-> ZInt, finished_at |-> ZInt,
           status |-> ZEnum(TASK_STATUSES),
           failed_reason |-> ZOptional(ZString),
           fine_tuned_model |-> ZString])

GenerateSpeechResponseSchema ==
  ZObject([url |-> ZUrl, expires_at |-> ZInt])

GeneratePodcastResponseSchema ==
  ZObject([url |-> ZUrl, expires_at |-> ZInt])

BillingInfoResponseSchema ==
  ZObject([account_id |-> ZInt, balance |-> ZInt, total_recharge |-> ZInt,
           total_spending |-> ZInt, concurrent_request_limit |-> ZInt])

MurekaApiErrorEnvelopeSchema ==
  ZObject([error |-> ZObject([message |-> ZString])])

\* the schema each endpoint function hands to request(), by name, so that a
\* call in flight records a name and not the schema value
SchemaOf(name) ==
  CASE name = "UploadFileResponseSchema" -> UploadFileResponseSchema
    [] name = "GenerateLyricsResponseSchema" -> GenerateLyricsResponseSchema
    [] name = "ExtendLyricsResponseSchema" -> ExtendLyricsResponseSchema
    [] name = "GenerateSongResponseSchema" -> GenerateSongResponseSchema
    [] name = "QuerySongTaskResponseSchema" -> QuerySongTaskResponseSchema
    [] name = "StemSongResponseSchema" -> StemSongResponseSchema
    [] name = "GenerateInstrumentalResponseSchema" ->
         GenerateInstrumentalResponseSchema
    [] name = "QueryInstrumentalTaskResponseSchema" ->
         QueryInstrumentalTaskResponseSchema
    [] name = "CreateUploadResponseSchema" -> CreateUploadResponseSchema
    [] name = "AddUploadPartResponseSchema" -> AddUploadPartResponseSchema
    [] name = "CompleteUploadResponseSchema" -> CompleteUploadResponseSchema
    [] name = "CreateFineTuningTaskResponseSchema" ->
         CreateFineTuningTaskResponseSchema
    [] name = "QueryFineTuningTaskResponseSchema" ->
         QueryFineTuningTaskResponseSchema
    [] name = "GenerateSpeechResponseSchema" -> GenerateSpeechResponseSchema
    [] name = "GeneratePodcastResponseSchema" -> GeneratePodcastResponseSchema
    [] name = "BillingInfoResponseSchema" -> BillingInfoResponseSchema

(***************************************************************************)
(* JavaScript values of the configuration, and errors.                     *)
(***************************************************************************)
Undefined == [t |-> "undefined", v |-> ""]
Null == [t |-> "null", v |-> ""]
Str(s) == [t |-> "string", v |-> s]

\* x == undefined, and the left side of x ?? y
IsNullish(x) == x.t \in {"undefined", "null"}

\* `${x}` in a template literal
TemplateStr(x) == IF x.t = "string" THEN x.v ELSE x.t

MUREKA_API_BASE_URL == "https://api.mureka.ai"

\* the table with the entry for 429 left out
STATUS_TO_ERROR_Without429 ==
  400 :> "ErrInvalidRequest" @@
  401 :> "ErrInvalidAuthentication" @@
  403 :> "ErrForbidden" @@
  500 :> "ErrServerError" @@
  503 :> "ErrEngineOverloaded"

\* the six sentinel errors, by the names they are exported under
STATUS_TO_ERROR ==
  400 :> "ErrInvalidRequest" @@
  401 :> "ErrInvalidAuthentication" @@
  403 :> "ErrForbidden" @@
  429 :> "ErrRateLimitOrQuotaExceeded" @@
  500 :> "ErrServerError" @@
  503 :> "ErrEngineOverloaded"

\* An error: its message (a template, with the status and text that are
\* interpolated into it) and the error it wraps.
NoError == [msg |-> "", status |-> 0, text |-> <<>>, cause |-> ""]

errorsNew(msg) == [NoError EXCEPT !.msg = msg]

errorsWrap(cause, msg) == [NoError EXCEPT !.msg = msg, !.cause = cause]

(***************************************************************************)
(* createClient: the credential check and the two constants the closure    *)
(* captures.                                                               *)
(***************************************************************************)
\* createClient with apiKey === undefined for its check: null gets through
createClient_StrictUndefined(cfg) ==
  LET apiKey == cfg.apiKey
  IN IF apiKey.t = "undefined"
       THEN [threw |-> TRUE, error |-> errorsNew("mureka api key required"),
             apiKey |-> Undefined, apiBaseUrl |-> ""]
       ELSE [threw |-> FALSE, error |-> NoError,
             apiKey |-> apiKey,
             apiBaseUrl |-> IF IsNullish(cfg.apiBaseUrl)
                              THEN MUREKA_API_BASE_URL
                              ELSE cfg.apiBaseUrl.v]

createClient(cfg) ==
  LET apiKey == cfg.apiKey
  IN IF IsNullish(apiKey)
       THEN [threw |-> TRUE, error |-> errorsNew("mureka api key required"),
             apiKey |-> Undefined, apiBaseUrl |-> ""]
       ELSE [threw |-> FALSE, error |-> NoError,
             apiKey |-> apiKey,
             apiBaseUrl |-> IF IsNullish(cfg.apiBaseUrl)
                              THEN MUREKA_API_BASE_URL
                              ELSE cfg.apiBaseUrl.v]

\* the client variable: whether createClient returned or threw, the config it
\* was given, and the apiKey and apiBaseUrl constants of the closure
NoClient ==
  [state |-> "none", given |-> [apiKey |-> Undefined, apiBaseUrl |-> Undefined],
   apiKey |-> Undefined, apiBaseUrl |-> ""]

(***************************************************************************)
(* One invocation of an endpoint function: where it is (pc), what it was   *)
(* called with, the requests it has sent, the steps of request() it has    *)
(* executed, the response it received and how its promise settled.         *)
(***************************************************************************)
NoResponse == [status |-> 0, readable |-> FALSE, text |-> NotJsonText]

IdleCall ==
  [pc |-> "idle", op |-> "", input |-> NoFields, schema |-> "",
   sent |-> <<>>, steps |-> <<>>, response |-> NoResponse,
   outcome |-> "pending", error |-> NoError, value |-> JNull]

Started(op, input) == [IdleCall EXCEPT !.op = op, !.input = input]

Step(call, name) == [call EXCEPT !.steps = Append(@, name)]

\* a throw that is caught and dropped: the promise fulfils with no value
Throw_Swallowed(call, err) ==
  [call EXCEPT !.pc = "done", !.outcome = "fulfilled"]

\* throw: the promise of the invocation rejects
Throw(call, err) ==
  [call EXCEPT !.pc = "done", !.outcome = "rejected", !.error = err]

\* return: the promise of the invocation fulfils
Return(call, value) ==
  [call EXCEPT !.pc = "done", !.outcome = "fulfilled", !.value = value]

(***************************************************************************)
(* Request bodies.                                                         *)
(***************************************************************************)
JUndefined == [t |-> "undefined", v |-> <<>>]

\* JSON.stringify(input): a property whose value is undefined is left out
JSONstringify(input) ==
  TextOf(JObj([key \in {k \in DOMAIN input : input[k].t # "undefined"}
                 |-> input[key]]))

\* new FormData(), then formData.append(name, value) for each entry
FormData(entries) == [t |-> "FormData", v |-> entries]

StringBody(text) == [t |-> "string", v |-> text]

NoBody == [t |-> "none", v |-> <<>>]

NoHeaders == [h \in {} |-> ""]

(***************************************************************************)
(* request(), lines 633-647: the fetch call.  {...options, headers: {...}} *)
(* and {...options.headers, Authorization, "Content-Type"}: in an object   *)
(* literal a later key overrides an earlier one, as the left operand of @@ *)
(* does.                                                                   *)
(***************************************************************************)
\* a fetch call that reads config.apiKey when the request is made, not the
\* constant captured at construction
FetchInit_ReadsConfig(cl, options) ==
  LET optionsHeaders == IF "headers" \in DOMAIN options
                          THEN options["headers"] ELSE NoHeaders
      headers == ("Authorization" :> ("Bearer " \o TemplateStr(config.apiKey)) @@
                  "Content-Type" :> "application/json") @@ optionsHeaders
  IN ("headers" :> headers) @@ options

FetchInit(cl, options) ==
  LET optionsHeaders == IF "headers" \in DOMAIN options
                          THEN options["headers"] ELSE NoHeaders
      headers == ("Authorization" :> ("Bearer " \o TemplateStr(cl.apiKey)) @@
                  "Content-Type" :> "application/json") @@ optionsHeaders
  IN ("headers" :> headers) @@ options

\* a request() that always addresses the provider's default origin
request_DefaultOrigin(cl, call, endpoint, options, responseSchema) ==
  [Step(call, "fetch") EXCEPT
     !.pc = "awaitFetch",
     !.schema = responseSchema,
     !.sent = Append(@, [url |-> MUREKA_API_BASE_URL \o endpoint,
                         init |-> FetchInit(cl, options)])]

request(cl, call, endpoint, options, responseSchema) ==
  [Step(call, "fetch") EXCEPT
     !.pc = "awaitFetch",
     !.schema = responseSchema,
     !.sent = Append(@, [url |-> cl.apiBaseUrl \o endpoint,
                         init |-> FetchInit(cl, options)])]

\* what the transport is handed
ReqHeaders(req) == req.init["headers"]
ReqMethod(req) == req.init["method"]
ReqBody(req) == IF "body" \in DOMAIN req.init THEN req.init["body"] ELSE NoBody

(***************************************************************************)
(* request(), lines 648-692: what runs when each awaited promise settles.  *)
(***************************************************************************)
\* a success test that takes every status below 400 for a success
ok_Below400(response) == response.status >= 200 /\ response.status < 400

\* Response.ok
ok(response) == response.status >= 200 /\ response.status <= 299

\* errors.try(response.text())
ResponseText(response) ==
  IF response.readable
    THEN [error |-> FALSE, cause |-> "", data |-> response.text]
    ELSE [error |-> TRUE, cause |-> "TypeError: body stream", data |-> NotJsonText]

\* errors.try(response.json())
ResponseJson(response) ==
  IF ~response.readable
    THEN [error |-> TRUE, cause |-> "TypeError: body stream", data |-> JNull]
    ELSE IF JSONparse(response.text).error
      THEN [error |-> TRUE, cause |-> "SyntaxError", data |-> JNull]
      ELSE [error |-> FALSE, cause |-> "", data |-> JSONparse(response.text).data]

\* a request() that fetches once more when the first fetch fails
AfterFetch_Retry(call, fetchResult) ==
  IF fetchResult.error
    THEN IF Len(call.sent) < 2
           THEN [Step(call, "fetch") EXCEPT !.sent = Append(@, @[1])]
           ELSE Throw(call, errorsWrap(fetchResult.cause,
                                       "unable to fetch response"))
    ELSE LET got == [call EXCEPT !.response = fetchResult.data]
         IN IF ok(fetchResult.data) = FALSE
              THEN [Step(got, "response.text") EXCEPT !.pc = "awaitText"]
              ELSE [Step(got, "response.json") EXCEPT !.pc = "awaitJson"]

\* a request() that does not look at fetchResult.error and goes on to read
\* the body
AfterFetch_IgnoresError(call, fetchResult) ==
  LET got == [call EXCEPT !.response = fetchResult.data]
  IN IF ok(fetchResult.data) = FALSE
       THEN [Step(got, "response.text") EXCEPT !.pc = "awaitText"]
       ELSE [Step(got, "response.json") EXCEPT !.pc = "awaitJson"]

\* lines 648-654 and 682: the fetch promise has settled
AfterFetch(call, fetchResult) ==
  IF fetchResult.error
    THEN Throw(call, errorsWrap(fetchResult.cause, "unable to fetch response"))
    ELSE LET got == [call EXCEPT !.response = fetchResult.data]
         IN IF ok(fetchResult.data) = FALSE
              THEN [Step(got, "response.text") EXCEPT !.pc = "awaitText"]
              ELSE [Step(got, "response.json") EXCEPT !.pc = "awaitJson"]

\* lines 674-679: a failure status the table does not list
UnknownStatus(status, envelopeData) ==
  LET message == toLowerCase(envelopeData.v["error"].v["message"].v)
  IN IF Len(trim(message)) > 0
       THEN [NoError EXCEPT
               !.msg = "(status: ${response.status}) unknown error: ${message}",
               !.status = status, !.text = message]
       ELSE [NoError EXCEPT
               !.msg = "(status: ${response.status}) unknown error",
               !.status = status]

\* lines 669-679: the error a well-formed envelope ends in
StatusError(status, envelopeData) ==
  IF status \in DOMAIN STATUS_TO_ERROR
    THEN errorsWrap(STATUS_TO_ERROR[status], "error response")
    ELSE UnknownStatus(status, envelopeData)

\* a request() that looks the status up in the table before it reads the
\* body, and reads the body only for a status the table does not list
AfterText_LookupFirst(call, text) ==
  IF call.response.status \in DOMAIN STATUS_TO_ERROR
    THEN Throw(Step(call, "STATUS_TO_ERROR"),
               errorsWrap(STATUS_TO_ERROR[call.response.status], "error response"))
    ELSE
      IF text.error
        THEN Throw(call, errorsWrap(text.cause, "unable to parse response body text"))
        ELSE
          LET parsed == JSONparse(text.data)
              c1 == Step(call, "JSON.parse")
          IN IF parsed.error
               THEN Throw(c1, errorsWrap("SyntaxError",
                                         "unable to parse response body json"))
               ELSE
                 LET envelope == safeParse(MurekaApiErrorEnvelopeSchema, parsed.data)
                     c2 == Step(c1, "MurekaApiErrorEnvelopeSchema.parse")
                 IN IF ~envelope.success
                      THEN Throw(c2, errorsWrap("ZodError",
                                                "unable to parse error envelope"))
                      ELSE Throw(Step(c2, "STATUS_TO_ERROR"),
                                 StatusError(call.response.status, envelope.data))

\* lines 655-680: the promise of response.text() has settled
AfterText(call, text) ==
  IF text.error
    THEN Throw(call, errorsWrap(text.cause, "unable to parse response body text"))
    ELSE
      LET parsed == JSONparse(text.data)
          c1 == Step(call, "JSON.parse")
      IN IF parsed.error
           THEN Throw(c1, errorsWrap("SyntaxError",
                                     "unable to parse response body json"))
           ELSE
             LET envelope == safeParse(MurekaApiErrorEnvelopeSchema, parsed.data)
                 c2 == Step(c1, "MurekaApiErrorEnvelopeSchema.parse")
             IN IF ~envelope.success
                  THEN Throw(c2, errorsWrap("ZodError",
                                            "unable to parse error envelope"))
                  ELSE Throw(Step(c2, "STATUS_TO_ERROR"),
                             StatusError(call.response.status, envelope.data))

\* a request() that returns the parsed body although validation failed
AfterJson_ReturnsUnvalidated(call, successBodyParseResult) ==
  IF successBodyParseResult.error
    THEN Throw(call, errorsWrap(successBodyParseResult.cause,
                                "mureka api success response parse"))
    ELSE Return(Step(call, "responseSchema.safeParse"),
                safeParse(SchemaOf(call.schema),
                          successBodyParseResult.data).data)

\* a request() that validates the body and then returns the body it parsed,
\* not the output of the validation
AfterJson_ReturnsParsedBody(call, successBodyParseResult) ==
  IF successBodyParseResult.error
    THEN Throw(call, errorsWrap(successBodyParseResult.cause,
                                "mureka api success response parse"))
    ELSE
      LET validatedSuccessResponse ==
            safeParse(SchemaOf(call.schema), successBodyParseResult.data)
          c1 == Step(call, "responseSchema.safeParse")
      IN IF validatedSuccessResponse.success = FALSE
           THEN Throw(c1, errorsWrap("ZodError",
                                     "mureka api success response validation"))
           ELSE Return(c1, successBodyParseResult.data)

\* lines 683-692: the promise of response.json() has settled
AfterJson(call, successBodyParseResult) ==
  IF successBodyParseResult.error
    THEN Throw(call, errorsWrap(successBodyParseResult.cause,
                                "mureka api success response parse"))
    ELSE
      LET validatedSuccessResponse ==
            safeParse(SchemaOf(call.schema), successBodyParseResult.data)
          c1 == Step(call, "responseSchema.safeParse")
      IN IF validatedSuccessResponse.success = FALSE
           THEN Throw(c1, errorsWrap("ZodError",
                                     "mureka api success response validation"))
           ELSE Return(c1, validatedSuccessResponse.data)

(***************************************************************************)
(* The 16 endpoint functions.  Each builds its path and options and calls  *)
(* request(); the call runs on to request()'s first await, the fetch.      *)
(***************************************************************************)
\* an uploadFile that appends the file and leaves the purpose out
uploadFile_WithoutPurpose(cl, call, input) ==
  LET formData == FormData(<< <<"file", input.file>> >>)
  IN request(cl, call, "/v1/files/upload",
             "method" :> "POST" @@ "body" :> formData,
             "UploadFileResponseSchema")

uploadFile(cl, call, input) ==
  LET formData == FormData(<< <<"file", input.file>>,
                              <<"purpose", input.purpose>> >>)
  IN request(cl, call, "/v1/files/upload",
             "method" :> "POST" @@ "body" :> formData,
             "UploadFileResponseSchema")

generateLyrics(cl, call, input) ==
  request(cl, call, "/v1/lyrics/generate",
          "method" :> "POST" @@ "body" :> StringBody(JSONstringify(input)),
          "GenerateLyricsResponseSchema")

extendLyrics(cl, call, input) ==
  request(cl, call, "/v1/lyrics/extend",
          "method" :> "POST" @@ "body" :> StringBody(JSONstringify(input)),
          "ExtendLyricsResponseSchema")

generateSong(cl, call, input) ==
  request(cl, call, "/v1/song/generate",
          "method" :> "POST" @@ "body" :> StringBody(JSONstringify(input)),
          "GenerateSongResponseSchema")

querySongTask(cl, call, input) ==
  request(cl, call, "/v1/song/query/" \o input.task_id, "method" :> "GET",
          "QuerySongTaskResponseSchema")

stemSong(cl, call, input) ==
  request(cl, call, "/v1/song/stem",
          "method" :> "POST" @@ "body" :> StringBody(JSONstringify(input)),
          "StemSongResponseSchema")

generateInstrumental(cl, call, input) ==
  IF IsNullish(input.prompt) /\ IsNullish(input.instrumental_id)
    THEN Throw(call, errorsNew(
           "exactly one of prompt or instrumental_id must be provided"))
    ELSE request(cl, call, "/v1/instrumental/generate",
                 "method" :> "POST" @@ "body" :> StringBody(JSONstringify(input)),
                 "GenerateInstrumentalResponseSchema")

queryInstrumentalTask(cl, call, input) ==
  request(cl, call, "/v1/instrumental/query/" \o input.task_id, "method" :> "GET",
          "QueryInstrumentalTaskResponseSchema")

createUpload(cl, call, input) ==
  request(cl, call, "/v1/uploads/create",
          "method" :> "POST" @@ "body" :> StringBody(JSONstringify(input)),
          "CreateUploadResponseSchema")

addUploadPart(cl, call, input) ==
  LET formData == FormData(<< <<"upload_id", input.upload_id>>,
                              <<"file", input.file>> >>)
  IN request(cl, call, "/v1/uploads/add",
             "method" :> "POST" @@ "body" :> formData,
             "AddUploadPartResponseSchema")

completeUpload(cl, call, input) ==
  request(cl, call, "/v1/uploads/complete",
          "method" :> "POST" @@ "body" :> StringBody(JSONstringify(input)),
          "CompleteUploadResponseSchema")

createFineTuningTask(cl, call, input) ==
  request(cl, call, "/v1/finetuning/create",
          "method" :> "POST" @@ "body" :> StringBody(JSONstringify(input)),
          "CreateFineTuningTaskResponseSchema")

queryFineTuningTask(cl, call, input) ==
  request(cl, call, "/v1/finetuning/query/" \o input.task_id, "method" :> "GET",
          "QueryFineTuningTaskResponseSchema")

\* a generateSpeech that refuses an input with both voice and voice_id
generateSpeech_Exclusive(cl, call, input) ==
  IF ~IsNullish(input.voice) /\ ~IsNullish(input.voice_id)
    THEN Throw(call, errorsNew("exactly one of voice or voice_id must be provided"))
    ELSE request(cl, call, "/v1/tts/generate",
                 "method" :> "POST" @@ "body" :> StringBody(JSONstringify(input)),
                 "GenerateSpeechResponseSchema")

generateSpeech(cl, call, input) ==
  request(cl, call, "/v1/tts/generate",
          "method" :> "POST" @@ "body" :> StringBody(JSONstringify(input)),
          "GenerateSpeechResponseSchema")

generatePodcast(cl, call, input) ==
  request(cl, call, "/v1/tts/podcast",
          "method" :> "POST" @@ "body" :> StringBody(JSONstringify(input)),
          "GeneratePodcastResponseSchema")

getBillingInfo(cl, call, input) ==
  request(cl, call, "/v1/account/billing", "method" :> "GET",
          "BillingInfoResponseSchema")

(***************************************************************************)
(* The inputs the model draws: configurations, endpoint inputs, and what   *)
(* the network answers.                                                    *)
(***************************************************************************)
ApiKeys == {Undefined, Null, Str("sk-1")}
ApiBaseUrls == {Undefined, Str("http://localhost:8080")}
Configs == [apiKey : ApiKeys, apiBaseUrl : ApiBaseUrls]

File1 == [t |-> "File", v |-> <<"a", ".", "m", "p", "3">>]
OptionalStrings == {JUndefined, JStr(<<"x">>)}
TaskIds == {"t1", "t2"}

\* the second input holds a property UploadFileInput does not declare
UploadFileInputs ==
  {[file |-> File1, purpose |-> JStr(<<"v","o","c","a","l">>)],
   [file |-> File1, purpose |-> JStr(<<"r","e","f">>),
    filename |-> JStr(<<"a">>)]}
GenerateLyricsInputs == {[prompt |-> JStr(<<"p">>)]}
ExtendLyricsInputs == {[lyrics |-> JStr(<<"l">>)]}
\* prompt and reference_id each set or not, and prompt next to vocal_id and
\* next to melody_id
GenerateSongInputs ==
  [lyrics : {JStr(<<"l">>)}, model : {JStr(<<"a","u","t","o">>)},
   prompt : OptionalStrings, reference_id : OptionalStrings,
   vocal_id : {JUndefined}, melody_id : {JUndefined}] \cup
  [lyrics : {JStr(<<"l">>)}, model : {JStr(<<"a","u","t","o">>)},
   prompt : {JStr(<<"x">>)}, reference_id : {JUndefined},
   vocal_id : {JStr(<<"x">>)}, melody_id : {JUndefined}] \cup
  [lyrics : {JStr(<<"l">>)}, model : {JStr(<<"a","u","t","o">>)},
   prompt : {JStr(<<"x">>)}, reference_id : {JUndefined},
   vocal_id : {JUndefined}, melody_id : {JStr(<<"x">>)}]
TaskInputs == [task_id : TaskIds]
StemSongInputs == {[url |-> JStr(<<"u", ":", "s">>)]}
GenerateInstrumentalInputs ==
  [model : {JStr(<<"a","u","t","o">>)},
   prompt : OptionalStrings, instrumental_id : OptionalStrings]
CreateUploadInputs ==
  {[upload_name |-> JStr(<<"u">>), purpose |-> JStr(<<"f","t">>)]}
AddUploadPartInputs == {[file |-> File1, upload_id |-> JStr(<<"u","1">>)]}
CompleteUploadInputs == {[upload_id |-> JStr(<<"u","1">>)]}
CreateFineTuningTaskInputs ==
  {[upload_id |-> JStr(<<"u","1">>), suffix |-> JStr(<<"s">>)]}
GenerateSpeechInputs ==
  [text : {JStr(<<"h","i">>)},
   voice : {JUndefined, JStr(<<"L","u","n","a">>)}, voice_id : OptionalStrings]
GeneratePodcastInputs ==
  {[conversations |->
      JArr(<< JObj([text |-> JStr(<<"h","i">>),
                    voice |-> JStr(<<"J","a","k","e">>)]) >>)]}
NoInputs == {NoFields}

\* the HTTP statuses the provider answers with: success, the six the table
\* lists, and others
Statuses == {200, 201, 304, 400, 401, 403, 404, 429, 500, 503}

MsgChars == {" ", "n", "N"}
Msgs == UNION {[1..n -> MsgChars] : n \in 0..MaxMsgLen}

Envelope(m) == JObj([error |-> JObj([message |-> JStr(m)])])

EnvelopeBodies ==
  {Envelope(m) : m \in Msgs} \cup
  {JObj([error |-> JObj([message |-> JStr(<<"n">>), code |-> JNum(7)]),
         request_id |-> JStr(<<"r">>)])}

NotEnvelopeBodies ==
  {JNull, JArr(<<>>), JStr(<<"o","k">>), JObj(NoFields),
   JObj([error |-> JStr(<<"n">>)]),
   JObj([error |-> JObj(NoFields)]),
   JObj([error |-> JObj([message |-> JNum(5)])])}

\* a value that satisfies a schema
RECURSIVE Sample(_)
Sample(schema) ==
  CASE schema.k = "string" -> JStr(<<"x">>)
    [] schema.k = "url" -> JStr(<<"u", ":", "a">>)
    [] schema.k = "int" -> JNum(1)
    [] schema.k = "enum" -> JStr(CHOOSE e \in schema.vals : TRUE)
    [] schema.k = "optional" -> Sample(schema.of)
    [] schema.k = "array" -> JArr(<<Sample(schema.of)>>)
    [] schema.k = "object" ->
         JObj([key \in DOMAIN schema.shape |-> Sample(schema.shape[key])])

\* bodies around a schema: one that satisfies it, that one with a key
\* removed, with a key of the wrong type, and with a key the schema does
\* not declare
ShapeBodies(schema) ==
  LET good == Sample(schema)
      keys == DOMAIN good.v
  IN {good}
     \cup {JObj([key \in keys \ {gone} |-> good.v[key]]) : gone \in keys}
     \cup {JObj([good.v EXCEPT ![CHOOSE key \in keys : TRUE] = JFrac(1, 5)])}
     \cup {JObj(("extra" :> JStr(<<"e">>)) @@ good.v)}

\* the body of a song task that succeeded with one choice, every declared
\* key present
SucceededChoice ==
  JObj([index |-> JNum(0), url |-> JStr(<<"u", ":", "m">>),
        flac_url |-> JStr(<<"u", ":", "f">>), duration |-> JNum(3),
        lyrics_sections |->
          JArr(<< JObj("section_type" :> JStr(<<"v","e","r","s","e">>) @@
                       "start" :> JNum(0) @@ "end" :> JNum(3) @@
                       "lines" :> JArr(<< JObj("start" :> JNum(0) @@
                                               "end" :> JNum(3) @@
                                               "text" :> JStr(<<"l">>)) >>)) >>)])

SucceededSongTask(choice) ==
  JObj([id |-> JStr(<<"t","1">>), created_at |-> JNum(1), finished_at |-> JNum(2),
        model |-> JStr(<<"a","u","t","o">>),
        status |-> JStr(<<"s","u","c","c","e","e","d","e","d">>),
        choices |-> JArr(<<choice>>)])

\* that body, the same with a key the choice schema does not declare, and
\* the same with the choice's index left out
SongTaskBodies ==
  {SucceededSongTask(SucceededChoice),
   SucceededSongTask(JObj(("stream_url" :> JStr(<<"u", ":", "s">>)) @@
                          SucceededChoice.v)),
   SucceededSongTask(JObj([key \in DOMAIN SucceededChoice.v \ {"index"}
                             |-> SucceededChoice.v[key]]))}

Texts(schemaName) ==
  {NotJsonText} \cup
  {TextOf(j) : j \in EnvelopeBodies \cup NotEnvelopeBodies
                       \cup ShapeBodies(SchemaOf(schemaName))
                       \cup (IF schemaName = "QuerySongTaskResponseSchema"
                               THEN SongTaskBodies ELSE {})}

Responses(schemaName) ==
  [status : Statuses, readable : {TRUE}, text : Texts(schemaName)] \cup
  [status : Statuses, readable : {FALSE}, text : {NotJsonText}]

FetchCauses == {"TypeError: fetch failed", "AbortError"}

(***************************************************************************)
(* Actions.                                                                *)
(***************************************************************************)
\* the caller calls createClient(config)
CreateClient ==
  /\ client.state # "ready"
  /\ LET r == createClient(config)
     IN client' = IF r.threw
                    THEN [NoClient EXCEPT !.state = "threw", !.given = config]
                    ELSE [state |-> "ready", given |-> config,
                          apiKey |-> r.apiKey, apiBaseUrl |-> r.apiBaseUrl]
  /\ UNCHANGED <<config, calls>>

\* the caller assigns to a property of the config object it still holds
MutateConfig ==
  /\ \E c \in Configs : c # config /\ config' = c
  /\ UNCHANGED <<client, calls>>

\* the caller invokes an endpoint function of the client it holds; next is
\* the invocation after the function has run to its first await or thrown
Invoke(c, next) ==
  /\ client.state = "ready"
  /\ calls[c].pc = "idle"
  /\ calls' = [calls EXCEPT ![c] = next]
  /\ UNCHANGED <<config, client>>

CallUploadFile(c) ==
  \E i \in UploadFileInputs :
    Invoke(c, uploadFile(client, Started("uploadFile", i), i))
CallGenerateLyrics(c) ==
  \E i \in GenerateLyricsInputs :
    Invoke(c, generateLyrics(client, Started("generateLyrics", i), i))
CallExtendLyrics(c) ==
  \E i \in ExtendLyricsInputs :
    Invoke(c, extendLyrics(client, Started("extendLyrics", i), i))
CallGenerateSong(c) ==
  \E i \in GenerateSongInputs :
    Invoke(c, generateSong(client, Started("generateSong", i), i))
CallQuerySongTask(c) ==
  \E i \in TaskInputs :
    Invoke(c, querySongTask(client, Started("querySongTask", i), i))
CallStemSong(c) ==
  \E i \in StemSongInputs :
    Invoke(c, stemSong(client, Started("stemSong", i), i))
CallGenerateInstrumental(c) ==
  \E i \in GenerateInstrumentalInputs :
    Invoke(c, generateInstrumental(client, Started("generateInstrumental", i), i))
CallQueryInstrumentalTask(c) ==
  \E i \in TaskInputs :
    Invoke(c, queryInstrumentalTask(client,
                                    Started("queryInstrumentalTask", i), i))
CallCreateUpload(c) ==
  \E i \in CreateUploadInputs :
    Invoke(c, createUpload(client, Started("createUpload", i), i))
CallAddUploadPart(c) ==
  \E i \in AddUploadPartInputs :
    Invoke(c, addUploadPart(client, Started("addUploadPart", i), i))
CallCompleteUpload(c) ==
  \E i \in CompleteUploadInputs :
    Invoke(c, completeUpload(client, Started("completeUpload", i), i))
CallCreateFineTuningTask(c) ==
  \E i \in CreateFineTuningTaskInputs :
    Invoke(c, createFineTuningTask(client,
                                   Started("createFineTuningTask", i), i))
CallQueryFineTuningTask(c) ==
  \E i \in TaskInputs :
    Invoke(c, queryFineTuningTask(client, Started("queryFineTuningTask", i), i))
CallGenerateSpeech(c) ==
  \E i \in GenerateSpeechInputs :
    Invoke(c, generateSpeech(client, Started("generateSpeech", i), i))
CallGeneratePodcast(c) ==
  \E i \in GeneratePodcastInputs :
    Invoke(c, generatePodcast(client, Started("generatePodcast", i), i))
CallGetBillingInfo(c) ==
  \E i \in NoInputs :
    Invoke(c, getBillingInfo(client, Started("getBillingInfo", i), i))

\* the transport cannot complete the request: the fetch promise rejects
FetchRejects(c) ==
  /\ calls[c].pc = "awaitFetch"
  /\ \E cause \in FetchCauses :
       calls' = [calls EXCEPT ![c] =
                   AfterFetch(@, [error |-> TRUE, cause |-> cause,
                                  data |-> NoResponse])]
  /\ UNCHANGED <<config, client>>

\* a response arrives: the fetch promise fulfils
FetchResolves(c) ==
  /\ calls[c].pc = "awaitFetch"
  /\ \E response \in Responses(calls[c].schema) :
       calls' = [calls EXCEPT ![c] =
                   AfterFetch(@, [error |-> FALSE, cause |-> "",
                                  data |-> response])]
  /\ UNCHANGED <<config, client>>

\* a request() that keeps the response in a variable shared by the
\* invocations of the client: the body read sees whichever response is there
TextSettles_SharedResponse(c) ==
  /\ calls[c].pc = "awaitText"
  /\ \E d \in DOMAIN calls :
       /\ calls[d].response.status # 0
       /\ calls' = [calls EXCEPT ![c] = AfterText(@, ResponseText(calls[d].response))]
  /\ UNCHANGED <<config, client>>

\* the promise of response.text() settles
TextSettles(c) ==
  /\ calls[c].pc = "awaitText"
  /\ calls' = [calls EXCEPT ![c] = AfterText(@, ResponseText(@.response))]
  /\ UNCHANGED <<config, client>>

\* the promise of response.json() settles
JsonSettles(c) ==
  /\ calls[c].pc = "awaitJson"
  /\ calls' = [calls EXCEPT ![c] = AfterJson(@, ResponseJson(@.response))]
  /\ UNCHANGED <<config, client>>

\* the caller has observed how the invocation settled and lets go of it
Forget(c) ==
  /\ calls[c].pc = "done"
  /\ calls' = [calls EXCEPT ![c] = IdleCall]
  /\ UNCHANGED <<config, client>>

(***************************************************************************)
(* Spec: a caller that holds one config object, constructs a client from   *)
(* it and awaits each invocation before it starts the next.                *)
(***************************************************************************)
Init ==
  /\ config \in Configs
  /\ client = NoClient
  /\ calls = [c \in {1} |-> IdleCall]

Next ==
  \/ CreateClient
  \/ MutateConfig
  \/ \E c \in DOMAIN calls : CallUploadFile(c)
  \/ \E c \in DOMAIN calls : CallGenerateLyrics(c)
  \/ \E c \in DOMAIN calls : CallExtendLyrics(c)
  \/ \E c \in DOMAIN calls : CallGenerateSong(c)
  \/ \E c \in DOMAIN calls : CallQuerySongTask(c)
  \/ \E c \in DOMAIN calls : CallStemSong(c)
  \/ \E c \in DOMAIN calls : CallGenerateInstrumental(c)
  \/ \E c \in DOMAIN calls : CallQueryInstrumentalTask(c)
  \/ \E c \in DOMAIN calls : CallCreateUpload(c)
  \/ \E c \in DOMAIN calls : CallAddUploadPart(c)
  \/ \E c \in DOMAIN calls : CallCompleteUpload(c)
  \/ \E c \in DOMAIN calls : CallCreateFineTuningTask(c)
  \/ \E c \in DOMAIN calls : CallQueryFineTuningTask(c)
  \/ \E c \in DOMAIN calls : CallGenerateSpeech(c)
  \/ \E c \in DOMAIN calls : CallGeneratePodcast(c)
  \/ \E c \in DOMAIN calls : CallGetBillingInfo(c)
  \/ \E c \in DOMAIN calls : FetchRejects(c)
  \/ \E c \in DOMAIN calls : FetchResolves(c)
  \/ \E c \in DOMAIN calls : TextSettles(c)
  \/ \E c \in DOMAIN calls : JsonSettles(c)
  \/ \E c \in DOMAIN calls : Forget(c)

Spec == Init /\ [][Next]_vars

(***************************************************************************)
(* SpecConc: a caller that starts invocations on one client without        *)
(* awaiting the earlier ones.  Each invocation in flight is suspended at   *)
(* one of the awaits of request() (fetch, response.text(),                 *)
(* response.json()), and the promises settle in any order.                 *)
(***************************************************************************)
MaxInFlight == 2

ConcTexts ==
  {NotJsonText, TextOf(Envelope(<<"N">>)),
   TextOf(Sample(StemSongResponseSchema)),
   TextOf(Sample(BillingInfoResponseSchema))}

ConcResponses == [status : {200, 404, 500}, readable : {TRUE}, text : ConcTexts]

\* a response arrives for one of the invocations in flight
FetchResolvesConc(c) ==
  /\ calls[c].pc = "awaitFetch"
  /\ \E response \in ConcResponses :
       calls' = [calls EXCEPT ![c] =
                   AfterFetch(@, [error |-> FALSE, cause |-> "",
                                  data |-> response])]
  /\ UNCHANGED <<config, client>>

InitConc ==
  /\ config = [apiKey |-> Str("sk-1"), apiBaseUrl |-> Undefined]
  /\ client = NoClient
  /\ calls = [c \in 1..MaxInFlight |-> IdleCall]

NextConc ==
  \/ CreateClient
  \/ \E c \in DOMAIN calls : CallStemSong(c)
  \/ \E c \in DOMAIN calls : CallGetBillingInfo(c)
  \/ \E c \in DOMAIN calls : FetchRejects(c)
  \/ \E c \in DOMAIN calls : FetchResolvesConc(c)
  \/ \E c \in DOMAIN calls : TextSettles(c)
  \/ \E c \in DOMAIN calls : JsonSettles(c)
  \/ \E c \in DOMAIN calls : Forget(c)

SpecConc == InitConc /\ [][NextConc]_vars

(***************************************************************************)
(* Properties.  The predicates below describe a response from the outside, *)
(* without the code's own parsing.                                         *)
(***************************************************************************)
Invocations == DOMAIN calls

\* the response the invocation received carries this JSON value as its body
HasJsonBody(call) ==
  /\ call.response.status # 0
  /\ call.response.readable
  /\ call.response.text.json

BodyOf(call) == call.response.text.val

\* { "error": { "message": <string> } }, other keys allowed
WellFormedEnvelope(j) ==
  /\ j.t = "obj"
  /\ "error" \in DOMAIN j.v
  /\ j.v["error"].t = "obj"
  /\ "message" \in DOMAIN j.v["error"].v
  /\ j.v["error"].v["message"].t = "str"

EnvelopeMessage(j) == j.v["error"].v["message"].v

KnownStatuses == {400, 401, 403, 429, 500, 503}

\* the status table as the specification prints it
KindOfStatus(status) ==
  CASE status = 400 -> "ErrInvalidRequest"
    [] status = 401 -> "ErrInvalidAuthentication"
    [] status = 403 -> "ErrForbidden"
    [] status = 429 -> "ErrRateLimitOrQuotaExceeded"
    [] status = 500 -> "ErrServerError"
    [] status = 503 -> "ErrEngineOverloaded"

Blank(m) == \A i \in DOMAIN m : m[i] \in WhiteSpace

PreconditionFailed(call) ==
  /\ call.outcome = "rejected"
  /\ call.error.msg = "exactly one of prompt or instrumental_id must be provided"

\* C1: an invocation that received one of the six known statuses with a
\* well-formed error envelope has failed with the error the status table
\* assigns to that status, whatever the envelope message is.
C1_KnownStatusKind ==
  \A c \in Invocations :
    LET call == calls[c]
    IN (/\ call.pc = "done"
        /\ call.response.status \in KnownStatuses
        /\ HasJsonBody(call)
        /\ WellFormedEnvelope(BodyOf(call)))
       => /\ call.outcome = "rejected"
          /\ call.error.msg = "error response"
          /\ call.error.cause = KindOfStatus(call.response.status)

\* C1 witness: a 429 with an envelope whose message is empty ended in
\* ErrRateLimitOrQuotaExceeded
C1_Witness ==
  \E c \in Invocations :
    /\ calls[c].pc = "done"
    /\ calls[c].response.status = 429
    /\ HasJsonBody(calls[c])
    /\ BodyOf(calls[c]) = Envelope(<<>>)
    /\ calls[c].error.cause = "ErrRateLimitOrQuotaExceeded"

\* C2 (as claimed): a request whose body is a multipart form carries no
\* Content-Type header set by the client.
C2_MultipartHasNoContentType ==
  \A c \in Invocations :
    \A i \in DOMAIN calls[c].sent :
      LET req == calls[c].sent[i]
      IN ReqBody(req).t = "FormData"
           => "Content-Type" \notin DOMAIN ReqHeaders(req)

\* C3 (as claimed): generateInstrumental with both of prompt and
\* instrumental_id set, or with neither, fails with the precondition error
\* and sends nothing; it sends a request only when exactly one is set.
C3_ExactlyOneControl ==
  \A c \in Invocations :
    LET call == calls[c]
        both == ~IsNullish(call.input.prompt)
                  /\ ~IsNullish(call.input.instrumental_id)
        neither == IsNullish(call.input.prompt)
                     /\ IsNullish(call.input.instrumental_id)
    IN call.op = "generateInstrumental"
         => IF both \/ neither
              THEN PreconditionFailed(call) /\ call.sent = <<>>
              ELSE Len(call.sent) = 1

\* C4: an invocation that reached request() has sent exactly one network
\* request, at every point of its life and however it ended.
C4_ExactlyOneRequest ==
  \A c \in Invocations :
    LET call == calls[c]
    IN /\ Len(call.sent) <= 1
       /\ (call.pc # "idle" /\ ~PreconditionFailed(call))
            => Len(call.sent) = 1

\* C4 witness: an invocation that ended in a transport failure, with its one
\* request sent
C4_Witness ==
  \E c \in Invocations :
    /\ calls[c].pc = "done"
    /\ calls[c].error.msg = "unable to fetch response"
    /\ Len(calls[c].sent) = 1

\* C5: a failure status outside the table with a well-formed envelope ends
\* in the unknown-status error with that status; the error carries the
\* message text when the message is not blank, and is the bare variant when
\* the message is empty or whitespace only.
C5_UnknownStatus ==
  \A c \in Invocations :
    LET call == calls[c]
        m == EnvelopeMessage(BodyOf(call))
    IN (/\ call.pc = "done"
        /\ ~ok(call.response)
        /\ call.response.status \notin KnownStatuses
        /\ HasJsonBody(call)
        /\ WellFormedEnvelope(BodyOf(call)))
       => /\ call.outcome = "rejected"
          /\ call.error.status = call.response.status
          /\ call.error.cause = ""
          /\ IF Blank(m)
               THEN /\ call.error.msg = "(status: ${response.status}) unknown error"
                    /\ call.error.text = <<>>
               ELSE /\ call.error.msg =
                         "(status: ${response.status}) unknown error: ${message}"
                    /\ Len(call.error.text) = Len(m)
                    /\ \A i \in DOMAIN m :
                         ToLowerChar(call.error.text[i]) = ToLowerChar(m[i])

\* C5 witness: a 404 with a whitespace-only message ended in the bare
\* unknown-status error
C5_Witness ==
  \E c \in Invocations :
    /\ calls[c].pc = "done"
    /\ calls[c].response.status = 404
    /\ HasJsonBody(calls[c])
    /\ BodyOf(calls[c]) = Envelope(<<" ">>)
    /\ calls[c].error.msg = "(status: ${response.status}) unknown error"

\* the invocation ended in the unknown-status error that carries a message
CarriesMessage(call) ==
  /\ call.pc = "done"
  /\ call.error.msg = "(status: ${response.status}) unknown error: ${message}"

UpperCase == {UPPER[i] : i \in DOMAIN UPPER}

\* C6 (as claimed): the message the unknown-status error carries has no
\* leading or trailing whitespace and no upper-case letter.
C6_CarriedMessageTrimmedAndLowered ==
  \A c \in Invocations :
    LET text == calls[c].error.text
    IN CarriesMessage(calls[c])
         => /\ text # <<>>
            /\ text[1] \notin WhiteSpace
            /\ text[Len(text)] \notin WhiteSpace
            /\ \A i \in DOMAIN text : text[i] \notin UpperCase

\* C6 (amended): the message the unknown-status error carries is the
\* envelope message lower-cased, character for character, with its leading
\* and trailing whitespace kept: it has no upper-case letter and is not
\* blank.
C6_CarriedMessageLowered ==
  \A c \in Invocations :
    LET text == calls[c].error.text
        m == EnvelopeMessage(BodyOf(calls[c]))
    IN CarriesMessage(calls[c])
         => /\ Len(text) = Len(m)
            /\ \A i \in DOMAIN m : text[i] = ToLowerChar(m[i])
            /\ \A i \in DOMAIN text : text[i] \notin UpperCase
            /\ ~Blank(text)

\* C6 witness: an envelope message with an upper-case letter and a trailing
\* space is carried lower-cased with the space kept
C6_Witness ==
  \E c \in Invocations :
    /\ CarriesMessage(calls[c])
    /\ EnvelopeMessage(BodyOf(calls[c])) = <<"N", " ">>
    /\ calls[c].error.text = <<"n", " ">>

\* the keys a schema requires of an object
RequiredKeys(schemaName) ==
  LET shape == SchemaOf(schemaName).shape
  IN {key \in DOMAIN shape : shape[key].k # "optional"}

\* C7: a success-status response whose JSON body is not an object, or lacks
\* a key the endpoint's response schema requires, ends in the response
\* validation error; and an invocation that failed returns no value.
C7_ShapeMismatchFails ==
  \A c \in Invocations :
    LET call == calls[c]
    IN /\ (/\ call.pc = "done"
           /\ ok(call.response)
           /\ HasJsonBody(call)
           /\ \/ BodyOf(call).t # "obj"
              \/ RequiredKeys(call.schema) \ DOMAIN BodyOf(call).v # {})
          => /\ call.outcome = "rejected"
             /\ call.error.msg = "mureka api success response validation"
             /\ call.error.cause = "ZodError"
       /\ call.outcome # "fulfilled" => call.value = JNull

\* C7 witness: generateSong received 200 with a body that has every key but
\* id, and failed validation
C7_Witness ==
  \E c \in Invocations :
    /\ calls[c].pc = "done"
    /\ calls[c].op = "generateSong"
    /\ calls[c].response.status = 200
    /\ HasJsonBody(calls[c])
    /\ BodyOf(calls[c]).t = "obj"
    /\ DOMAIN BodyOf(calls[c]).v =
         DOMAIN GenerateSongResponseSchema.shape \ {"id"}
    /\ calls[c].error.msg = "mureka api success response validation"

\* the base URL a configuration stands for
BaseUrlOf(cfg) ==
  IF cfg.apiBaseUrl.t = "string" THEN cfg.apiBaseUrl.v
                                 ELSE "https://api.mureka.ai"

\* C8: every request a client sent carries Authorization: Bearer followed by
\* the credential of the config the client was constructed from, whatever
\* the operation and body, and whatever the config object holds now; the
\* client's credential and base URL are still those of its construction.
C8_BearerCredential ==
  \A c \in Invocations :
    \A i \in DOMAIN calls[c].sent :
      LET req == calls[c].sent[i]
      IN /\ client.state = "ready"
         /\ client.given.apiKey.t = "string"
         /\ "Authorization" \in DOMAIN ReqHeaders(req)
         /\ ReqHeaders(req)["Authorization"] =
              "Bearer " \o client.given.apiKey.v
         /\ client.apiKey = client.given.apiKey
         /\ client.apiBaseUrl = BaseUrlOf(client.given)

\* C8 witness: a multipart request is in flight with the credential given at
\* construction, while the config object no longer holds that credential
C8_Witness ==
  \E c \in Invocations :
    /\ calls[c].pc = "awaitFetch"
    /\ ReqBody(calls[c].sent[1]).t = "FormData"
    /\ ReqHeaders(calls[c].sent[1])["Authorization"] = "Bearer sk-1"
    /\ config.apiKey # client.given.apiKey

\* C9: when the fetch promise rejects, the invocation ends at once in the
\* transport error that wraps the cause: it has run no step of request()
\* but the fetch, received no response and sent no second request.
C9_TransportFailureEnds ==
  [][\A c \in Invocations :
       FetchRejects(c)
         => /\ calls'[c].pc = "done"
            /\ calls'[c].outcome = "rejected"
            /\ calls'[c].error.msg = "unable to fetch response"
            /\ calls'[c].error.cause \in FetchCauses
            /\ calls'[c].steps = <<"fetch">>
            /\ calls'[c].response = NoResponse
            /\ calls'[c].value = JNull
            /\ calls'[c].sent = calls[c].sent
            /\ Len(calls'[c].sent) = 1]_vars

\* C9 witness: an invocation that ended in the transport error
C9_Witness ==
  \E c \in Invocations :
    /\ calls[c].pc = "done"
    /\ calls[c].error.msg = "unable to fetch response"
    /\ calls[c].error.cause = "AbortError"
    /\ calls[c].steps = <<"fetch">>

\* C10: createClient called with a config whose apiKey is undefined or null
\* threw; a client that exists holds a string credential; and while no
\* client exists no invocation has started and no request has been sent.
C10_NoClientWithoutCredential ==
  /\ (client.state # "none" /\ IsNullish(client.given.apiKey))
       => client.state = "threw"
  /\ client.state = "ready" => client.apiKey.t = "string"
  /\ client.state # "ready" => \A c \in Invocations : calls[c] = IdleCall

\* C10 witness: createClient was called without a credential and threw
C10_Witness ==
  /\ client.state = "threw"
  /\ client.given.apiKey = Null
  /\ \A c \in Invocations : calls[c].sent = <<>>

\* a JSON value has what a schema asks for: every required key, and every
\* declared key that is present of the declared type
RECURSIVE Satisfies(_, _)
Satisfies(schema, x) ==
  CASE schema.k = "string" -> x.t = "str"
    [] schema.k = "url" -> x.t = "str" /\ IsUrl(x.v)
    [] schema.k = "int" -> x.t = "num" /\ x.v[2] = 0
    [] schema.k = "enum" -> x.t = "str" /\ x.v \in schema.vals
    [] schema.k = "optional" -> Satisfies(schema.of, x)
    [] schema.k = "array" ->
         x.t = "arr" /\ \A i \in DOMAIN x.v : Satisfies(schema.of, x.v[i])
    [] schema.k = "object" ->
         /\ x.t = "obj"
         /\ \A key \in DOMAIN schema.shape :
              IF key \in DOMAIN x.v
                THEN Satisfies(schema.shape[key], x.v[key])
                ELSE schema.shape[key].k = "optional"

\* a JSON value that satisfies a schema has, at every depth, no key the
\* schema does not declare
RECURSIVE OnlyDeclared(_, _)
OnlyDeclared(schema, x) ==
  CASE schema.k = "optional" -> OnlyDeclared(schema.of, x)
    [] schema.k = "array" ->
         x.t = "arr" /\ \A i \in DOMAIN x.v : OnlyDeclared(schema.of, x.v[i])
    [] schema.k = "object" ->
         /\ x.t = "obj"
         /\ DOMAIN x.v \subseteq DOMAIN schema.shape
         /\ \A key \in DOMAIN x.v : OnlyDeclared(schema.shape[key], x.v[key])
    [] OTHER -> TRUE

\* the status of the response the invocation received is a success status
SuccessStatus(call) ==
  call.response.status >= 200 /\ call.response.status <= 299

\* querySongTask has settled on a success response whose body satisfies the
\* song task shape
SongTaskAnswered(call) ==
  /\ call.pc = "done"
  /\ call.op = "querySongTask"
  /\ SuccessStatus(call)
  /\ HasJsonBody(call)
  /\ Satisfies(QuerySongTaskResponseSchema, BodyOf(call))

\* C11 as stated: whenever querySongTask received a success response whose
\* body satisfies the song task shape, the value it returned equals the body
\* received, field for field.
C11_ReturnedEqualsReceived ==
  \A c \in Invocations :
    SongTaskAnswered(calls[c])
      => /\ calls[c].outcome = "fulfilled"
         /\ calls[c].value = BodyOf(calls[c])

\* C11: whenever querySongTask received a success response whose body
\* satisfies the song task shape, the invocation returned a value, and the
\* value equals the body received exactly when the body has no key the shape
\* does not declare, so a body of declared keys only comes back unchanged.
C11_DeclaredBodyReturnedUnchanged ==
  \A c \in Invocations :
    SongTaskAnswered(calls[c])
      => /\ calls[c].outcome = "fulfilled"
         /\ calls[c].error = NoError
         /\ (calls[c].value = BodyOf(calls[c]))
              <=> OnlyDeclared(QuerySongTaskResponseSchema, BodyOf(calls[c]))

\* C11 witness: querySongTask received 200 with the succeeded one-choice body
\* and returned it
C11_Witness ==
  \E c \in Invocations :
    /\ calls[c].pc = "done"
    /\ calls[c].op = "querySongTask"
    /\ calls[c].response.status = 200
    /\ HasJsonBody(calls[c])
    /\ BodyOf(calls[c]) = SucceededSongTask(SucceededChoice)
    /\ calls[c].outcome = "fulfilled"
    /\ calls[c].value = SucceededSongTask(SucceededChoice)

\* the kinds of error an invocation can fail with, read off the error
ErrorKind(err) ==
  CASE err.msg = "exactly one of prompt or instrumental_id must be provided"
         -> "precondition"
    [] err.msg = "unable to fetch response" -> "transport"
    [] err.msg = "unable to parse response body text" -> "body-read"
    [] err.msg = "unable to parse response body json" -> "body-parse"
    [] err.msg = "mureka api success response parse" -> "body-parse"
    [] err.msg = "unable to parse error envelope" -> "envelope-parse"
    [] err.msg = "error response"
         /\ err.cause \in {KindOfStatus(s) : s \in KnownStatuses} -> "api"
    [] err.msg = "(status: ${response.status}) unknown error: ${message}"
         -> "unknown-status"
    [] err.msg = "(status: ${response.status}) unknown error"
         -> "unknown-status"
    [] err.msg = "mureka api success response validation" -> "response-shape"
    [] OTHER -> "none"

Taxonomy ==
  {"precondition", "transport", "body-read", "body-parse", "envelope-parse",
   "api", "unknown-status", "response-shape"}

\* the invocation received a success response whose body satisfies the
\* response shape of its operation
ValidAnswer(call) ==
  /\ SuccessStatus(call)
  /\ HasJsonBody(call)
  /\ Satisfies(SchemaOf(call.schema), BodyOf(call))

\* an invocation is pending until it is done; done, it holds either a value
\* and no error, and then it received a valid answer, or one error of the
\* taxonomy and no value
OneOutcome(call) ==
  /\ call.pc # "done" => call.outcome = "pending" /\ call.error = NoError
                                                  /\ call.value = JNull
  /\ call.pc = "done" =>
       \/ /\ call.outcome = "fulfilled"
          /\ call.error = NoError
          /\ ValidAnswer(call)
       \/ /\ call.outcome = "rejected"
          /\ call.value = JNull
          /\ ErrorKind(call.error) \in Taxonomy

\* how far an invocation is: it waits for the response, then for the body,
\* then it is done
Rank(pc) ==
  CASE pc = "idle" -> 0
    [] pc = "awaitFetch" -> 1
    [] pc \in {"awaitText", "awaitJson"} -> 2
    [] pc = "done" -> 3

\* an invocation that is not done waits for a promise that exists: for the
\* fetch it started, or for the body of the response it received
Awaits(call) ==
  CASE call.pc = "idle" -> call.sent = <<>> /\ call.response = NoResponse
    [] call.pc = "awaitFetch" -> Len(call.sent) = 1 /\ call.response = NoResponse
    [] call.pc = "awaitText" -> call.response.status # 0 /\ ~SuccessStatus(call)
    [] call.pc = "awaitJson" -> call.response.status # 0 /\ SuccessStatus(call)
    [] call.pc = "done" -> TRUE
    [] OTHER -> FALSE

\* C12: every invocation that was started reaches one terminal outcome: an
\* invocation that is not done waits for the fetch it started or for the body
\* of the response it received, and every step it takes brings it nearer to
\* done, so it settles once the promises it awaits do;
\* settled, it holds either a validated value or exactly one error of the
\* taxonomy, never a value in place of an error; and what it settled with
\* stays as it is until the caller lets go of it.
C12_OneTerminalOutcome ==
  /\ [](\A c \in Invocations : OneOutcome(calls[c]) /\ Awaits(calls[c]))
  /\ [][\A c \in Invocations :
          /\ calls[c].pc = "done" => calls'[c] \in {calls[c], IdleCall}
          /\ calls[c].pc \notin {"idle", "done"} /\ calls'[c] # calls[c]
               => Rank(calls'[c].pc) > Rank(calls[c].pc)
          /\ calls[c].pc = "idle" /\ calls'[c] # calls[c]
               => calls'[c].pc \in {"awaitFetch", "done"}]_vars

\* C12 witness: an invocation that failed on an unreadable failure body
C12_Witness ==
  \E c \in Invocations :
    /\ calls[c].pc = "done"
    /\ calls[c].response.status = 500
    /\ ~calls[c].response.readable
    /\ calls[c].outcome = "rejected"
    /\ ErrorKind(calls[c].error) = "body-read"

\* the endpoint table as the specification prints it: path (a prefix for the
\* operations that append the task identifier), method and body encoding
EndpointTable ==
  [uploadFile |-> <<"/v1/files/upload", "POST", "multipart">>,
   generateLyrics |-> <<"/v1/lyrics/generate", "POST", "json">>,
   extendLyrics |-> <<"/v1/lyrics/extend", "POST", "json">>,
   generateSong |-> <<"/v1/song/generate", "POST", "json">>,
   querySongTask |-> <<"/v1/song/query/", "GET", "none">>,
   stemSong |-> <<"/v1/song/stem", "POST", "json">>,
   generateInstrumental |-> <<"/v1/instrumental/generate", "POST", "json">>,
   queryInstrumentalTask |-> <<"/v1/instrumental/query/", "GET", "none">>,
   createUpload |-> <<"/v1/uploads/create", "POST", "json">>,
   addUploadPart |-> <<"/v1/uploads/add", "POST", "multipart">>,
   completeUpload |-> <<"/v1/uploads/complete", "POST", "json">>,
   createFineTuningTask |-> <<"/v1/finetuning/create", "POST", "json">>,
   queryFineTuningTask |-> <<"/v1/finetuning/query/", "GET", "none">>,
   generateSpeech |-> <<"/v1/tts/generate", "POST", "json">>,
   generatePodcast |-> <<"/v1/tts/podcast", "POST", "json">>,
   getBillingInfo |-> <<"/v1/account/billing", "GET", "none">>]

QueryOperations ==
  {"querySongTask", "queryInstrumentalTask", "queryFineTuningTask"}

\* the path the table gives an invocation
PathOf(call) ==
  IF call.op \in QueryOperations
    THEN EndpointTable[call.op][1] \o call.input.task_id
    ELSE EndpointTable[call.op][1]

\* the encoding of the body a request hands to the transport
BodyEncoding(req) ==
  CASE "body" \notin DOMAIN req.init -> "none"
    [] req.init["body"].t = "FormData" -> "multipart"
    [] req.init["body"].t = "string" /\ req.init["body"].v.json -> "json"
    [] OTHER -> "other"

\* C13: every request an invocation has sent goes to the base URL the client
\* was constructed with followed by the path the endpoint table lists for
\* the operation (with the input's task_id appended for the three query
\* operations), with the listed method and body encoding; the four GET
\* operations send no body.
C13_EndpointTable ==
  \A c \in Invocations :
    \A i \in DOMAIN calls[c].sent :
      LET call == calls[c]
          req == call.sent[i]
      IN /\ call.op \in DOMAIN EndpointTable
         /\ req.url = BaseUrlOf(client.given) \o PathOf(call)
         /\ ReqMethod(req) = EndpointTable[call.op][2]
         /\ BodyEncoding(req) = EndpointTable[call.op][3]
         /\ ReqMethod(req) = "GET" => "body" \notin DOMAIN req.init

\* C13 witness: queryFineTuningTask for task t2 on a client with the default
\* base URL has sent its GET request
C13_Witness ==
  \E c \in Invocations :
    /\ calls[c].op = "queryFineTuningTask"
    /\ calls[c].input.task_id = "t2"
    /\ client.given.apiBaseUrl = Undefined
    /\ Len(calls[c].sent) = 1
    /\ calls[c].sent[1].url = "https://api.mureka.ai/v1/finetuning/query/t2"
    /\ ReqMethod(calls[c].sent[1]) = "GET"
    /\ ReqBody(calls[c].sent[1]) = NoBody

\* the endpoint function of an operation
EndpointOf(op, cl, call, input) ==
  CASE op = "uploadFile" -> uploadFile(cl, call, input)
    [] op = "generateLyrics" -> generateLyrics(cl, call, input)
    [] op = "extendLyrics" -> extendLyrics(cl, call, input)
    [] op = "generateSong" -> generateSong(cl, call, input)
    [] op = "querySongTask" -> querySongTask(cl, call, input)
    [] op = "stemSong" -> stemSong(cl, call, input)
    [] op = "generateInstrumental" -> generateInstrumental(cl, call, input)
    [] op = "queryInstrumentalTask" -> queryInstrumentalTask(cl, call, input)
    [] op = "createUpload" -> createUpload(cl, call, input)
    [] op = "addUploadPart" -> addUploadPart(cl, call, input)
    [] op = "completeUpload" -> completeUpload(cl, call, input)
    [] op = "createFineTuningTask" -> createFineTuningTask(cl, call, input)
    [] op = "queryFineTuningTask" -> queryFineTuningTask(cl, call, input)
    [] op = "generateSpeech" -> generateSpeech(cl, call, input)
    [] op = "generatePodcast" -> generatePodcast(cl, call, input)
    [] op = "getBillingInfo" -> getBillingInfo(cl, call, input)

\* an invocation run alone, from its start to its end, on the answer the
\* transport gave it
RunAlone(op, input, fetchResult) ==
  LET started == EndpointOf(op, client, Started(op, input), input)
      fetched == IF started.pc = "awaitFetch"
                   THEN AfterFetch(started, fetchResult) ELSE started
  IN CASE fetched.pc = "awaitText" ->
            AfterText(fetched, ResponseText(fetched.response))
       [] fetched.pc = "awaitJson" ->
            AfterJson(fetched, ResponseJson(fetched.response))
       [] OTHER -> fetched

\* what the transport gave an invocation: the response it holds, or the
\* failure its error wraps
AnswerOf(call) ==
  IF call.response.status # 0
    THEN [error |-> FALSE, cause |-> "", data |-> call.response]
    ELSE [error |-> TRUE, cause |-> call.error.cause, data |-> NoResponse]

\* C14: with several invocations of one client in flight and their awaits
\* settling in any order, every invocation that has settled holds exactly
\* the outcome it has when run alone on the answer it received; a step of
\* one invocation changes no other invocation, and no step changes the
\* client's credential or base URL.
C14_OutcomeAsIfAlone ==
  /\ [](\A c \in Invocations :
          calls[c].pc = "done"
            => calls[c] = RunAlone(calls[c].op, calls[c].input, AnswerOf(calls[c])))
  /\ [][/\ \A c, d \in Invocations :
             calls'[c] # calls[c] /\ calls'[d] # calls[d] => c = d
        /\ client.state = "ready" => client' = client]_vars

\* C14 witness: two invocations in flight at once, each suspended at an
\* await on a response of its own, while neither has settled
C14_Witness ==
  \E c, d \in Invocations :
    /\ c # d
    /\ calls[c].pc = "awaitText"
    /\ calls[d].pc = "awaitJson"
    /\ calls[c].op = "getBillingInfo"
    /\ calls[d].op = "stemSong"
    /\ calls[c].response.text # calls[d].response.text

\* the invocation has settled on a response with a failure status
FailureAnswered(call) ==
  /\ call.pc = "done"
  /\ call.response.status # 0
  /\ ~SuccessStatus(call)

\* the checks of the failure branch in the order the specification gives
FailureChecks ==
  <<"fetch", "response.text", "JSON.parse",
    "MurekaApiErrorEnvelopeSchema.parse", "STATUS_TO_ERROR">>

\* C15: an invocation that received a failure status, one of the six known
\* ones included, has failed, and the first check that fails decides how: an
\* unreadable body gives the body-read error after the read alone, a body
\* that is not JSON the body-parse error after read and parse, a JSON body
\* that is not an error envelope the envelope-parse error after read, parse
\* and envelope validation, and only a well-formed envelope reaches the
\* status table and gives a classified or an unknown-status error.
C15_FirstFailingCheckDecides ==
  \A c \in Invocations :
    LET call == calls[c]
        kind == ErrorKind(call.error)
    IN FailureAnswered(call) =>
         /\ call.outcome = "rejected"
         /\ call.steps = SubSeq(FailureChecks, 1, Len(call.steps))
         /\ IF ~call.response.readable
              THEN kind = "body-read" /\ Len(call.steps) = 2
              ELSE IF ~call.response.text.json
                THEN /\ kind = "body-parse"
                     /\ call.error.msg = "unable to parse response body json"
                     /\ Len(call.steps) = 3
                ELSE IF ~WellFormedEnvelope(BodyOf(call))
                  THEN kind = "envelope-parse" /\ Len(call.steps) = 4
                  ELSE /\ Len(call.steps) = 5
                       /\ kind = IF call.response.status \in KnownStatuses
                                   THEN "api" ELSE "unknown-status"

\* C15 witness: status 401 with a JSON body whose error is a string, not an
\* object: the invocation failed on the envelope, not with the error of 401
C15_Witness ==
  \E c \in Invocations :
    /\ calls[c].pc = "done"
    /\ calls[c].response.status = 401
    /\ HasJsonBody(calls[c])
    /\ BodyOf(calls[c]) = JObj([error |-> JStr(<<"n">>)])
    /\ calls[c].error.msg = "unable to parse error envelope"
    /\ calls[c].error.cause = "ZodError"

\* the invocation has settled on a response with a success status
SuccessAnswered(call) ==
  /\ call.pc = "done"
  /\ call.response.status # 0
  /\ SuccessStatus(call)

\* C16: an invocation that received a success status has run none of the
\* failure-branch checks and has ended in a validated value, the body-parse
\* error or the response-shape error; when its body is JSON, an error
\* envelope included, the body's fit to the response shape alone decides
\* between value and response-shape error; and an invocation that received a
\* failure status holds no value, even when the body satisfies the response
\* shape.
C16_EnvelopeOnlyOnFailure ==
  \A c \in Invocations :
    LET call == calls[c]
        kind == ErrorKind(call.error)
        fits == Satisfies(SchemaOf(call.schema), BodyOf(call))
    IN /\ SuccessAnswered(call) =>
            /\ \A i \in DOMAIN call.steps :
                 call.steps[i] \in {"fetch", "response.json",
                                    "responseSchema.safeParse"}
            /\ \/ call.outcome = "fulfilled"
               \/ call.outcome = "rejected"
                    /\ kind \in {"body-parse", "response-shape"}
            /\ HasJsonBody(call) =>
                 IF fits THEN call.outcome = "fulfilled"
                         ELSE kind = "response-shape"
            /\ ~HasJsonBody(call) =>
                 /\ kind = "body-parse"
                 /\ call.error.msg = "mureka api success response parse"
       /\ FailureAnswered(call) =>
            /\ call.outcome = "rejected"
            /\ call.value = JNull
            /\ kind \notin {"response-shape", "none"}

\* C16 witness: status 201 with a well-formed error envelope as body: the
\* invocation failed on the response shape, and the status table and the
\* envelope were not consulted
C16_Witness ==
  \E c \in Invocations :
    /\ calls[c].pc = "done"
    /\ calls[c].response.status = 201
    /\ HasJsonBody(calls[c])
    /\ WellFormedEnvelope(BodyOf(calls[c]))
    /\ calls[c].error.msg = "mureka api success response validation"
    /\ calls[c].steps = <<"fetch", "response.json", "responseSchema.safeParse">>

\* the fields of a multipart body, by name: the values appended under it
FieldValues(body, name) ==
  {body.v[i][2] : i \in {j \in DOMAIN body.v : body.v[j][1] = name}}

\* a multipart body has exactly these fields, each once, each with the value
\* the input has under that name
ExactlyFields(req, names, input) ==
  /\ ReqBody(req).t = "FormData"
  /\ Len(ReqBody(req).v) = Cardinality(names)
  /\ {ReqBody(req).v[i][1] : i \in DOMAIN ReqBody(req).v} = names
  /\ \A name \in names : FieldValues(ReqBody(req), name) = {input[name]}

\* C17: the multipart body uploadFile sends has exactly the fields file and
\* purpose, the one addUploadPart sends exactly upload_id and file, each with
\* the value of the input and nothing else, whatever else the input holds.
C17_MultipartFields ==
  \A c \in Invocations :
    \A i \in DOMAIN calls[c].sent :
      /\ calls[c].op = "uploadFile" =>
           ExactlyFields(calls[c].sent[i], {"file", "purpose"}, calls[c].input)
      /\ calls[c].op = "addUploadPart" =>
           ExactlyFields(calls[c].sent[i], {"upload_id", "file"}, calls[c].input)

\* C17 witness: uploadFile was called with an input that holds a third
\* property and has sent a body with the two fields only
C17_Witness ==
  \E c \in Invocations :
    /\ calls[c].op = "uploadFile"
    /\ "filename" \in DOMAIN calls[c].input
    /\ Len(calls[c].sent) = 1
    /\ ReqBody(calls[c].sent[1]) =
         FormData(<< <<"file", File1>>,
                     <<"purpose", JStr(<<"r","e","f">>)>> >>)

\* the invocation failed before any request was sent
FailedLocally(call) ==
  /\ call.pc = "done"
  /\ call.sent = <<>>

\* the options of an input that are set
OptionsSet(input, names) ==
  {name \in names \cap DOMAIN input : input[name].t # "undefined"}

\* C18: generateInstrumental is the only operation that can fail before a
\* request is sent: every invocation of one of the other 15 operations has,
\* from its first step on, sent its one request, for every input, and so for
\* a generateSong input with prompt next to reference_id, vocal_id or
\* melody_id and a generateSpeech input with both voice and voice_id.
C18_OnlyInstrumentalHasPrecondition ==
  \A c \in Invocations :
    LET call == calls[c]
    IN /\ FailedLocally(call) => call.op = "generateInstrumental"
       /\ ErrorKind(call.error) = "precondition" =>
            call.op = "generateInstrumental"
       /\ call.pc # "idle" /\ call.op # "generateInstrumental" =>
            /\ call.op \in DOMAIN EndpointTable
            /\ Len(call.sent) = 1
            /\ call.steps # <<>> /\ call.steps[1] = "fetch"

\* C18 witness: generateSong was called with prompt and melody_id both set
\* and its request is on its way
C18_Witness ==
  \E c \in Invocations :
    /\ calls[c].op = "generateSong"
    /\ OptionsSet(calls[c].input, {"prompt", "reference_id", "vocal_id",
                                   "melody_id"}) = {"prompt", "melody_id"}
    /\ calls[c].pc = "awaitFetch"
    /\ Len(calls[c].sent) = 1
    /\ "melody_id" \in DOMAIN ReqBody(calls[c].sent[1]).v.val.v

\* a value has every declared key the body has, with the body's value under
\* it, and no key the body does not have
RECURSIVE AgreesOnDeclared(_, _, _)
AgreesOnDeclared(schema, value, body) ==
  CASE schema.k = "optional" -> AgreesOnDeclared(schema.of, value, body)
    [] schema.k = "array" ->
         /\ value.t = "arr"
         /\ Len(value.v) = Len(body.v)
         /\ \A i \in DOMAIN body.v :
              AgreesOnDeclared(schema.of, value.v[i], body.v[i])
    [] schema.k = "object" ->
         /\ value.t = "obj"
         /\ DOMAIN value.v = DOMAIN schema.shape \cap DOMAIN body.v
         /\ \A key \in DOMAIN value.v :
              AgreesOnDeclared(schema.shape[key], value.v[key], body.v[key])
    [] OTHER -> value = body

\* C19: a success response whose body satisfies the response shape is
\* accepted whether or not the body has keys the shape does not declare; the
\* value returned has the declared keys of the body with the body's values
\* and no undeclared key at any depth, so it equals the body received
\* exactly when the body has no undeclared key.
C19_UndeclaredFieldsStripped ==
  \A c \in Invocations :
    LET call == calls[c]
        schema == SchemaOf(call.schema)
    IN /\ SuccessAnswered(call) /\ ValidAnswer(call) => call.outcome = "fulfilled"
       /\ call.outcome = "fulfilled" =>
            /\ OnlyDeclared(schema, call.value)
            /\ AgreesOnDeclared(schema, call.value, BodyOf(call))
            /\ (call.value = BodyOf(call)) <=> OnlyDeclared(schema, BodyOf(call))

\* C19 witness: generateLyrics received 200 with title, lyrics and a key the
\* shape does not declare, and returned title and lyrics only
C19_Witness ==
  \E c \in Invocations :
    /\ calls[c].op = "generateLyrics"
    /\ calls[c].response.status = 200
    /\ HasJsonBody(calls[c])
    /\ DOMAIN BodyOf(calls[c]).v = {"title", "lyrics", "extra"}
    /\ calls[c].outcome = "fulfilled"
    /\ DOMAIN calls[c].value.v = {"title", "lyrics"}
    /\ calls[c].value # BodyOf(calls[c])

=============================================================================
